---- MODULE Spec2Model ----
(***************************************************************************)
(* The model registry of the ADI Uzu LLM plugin (src/src/lib.rs): the      *)
(* process-wide table MODELS (path -> Client) behind one mutex, the five   *)
(* registry operations load_model, unload_model, list_models,              *)
(* generate_text and get_model_info called from concurrent host threads,   *)
(* and the lifecycle hooks plugin_init and plugin_cleanup; and the two     *)
(* service front-ends cli_invoke / run_cli_command and inference_invoke     *)
(* that decode a boundary call into one of the five operations.            *)
(*                                                                         *)
(* Every MODELS.lock() of the source is a step of its own, so the states   *)
(* in which a thread holds the lock while it is inside the engine          *)
(* (Client::new, Client::generate) are states of the model.  The engine    *)
(* is an opaque collaborator: each constructor or generate call may        *)
(* succeed, fail, or panic (a panic under the lock poisons the mutex).     *)
(***************************************************************************)
EXTENDS Naturals, FiniteSets, Sequences, TLC

\* ---------------------------------------------------------------- bounds
NumThreads == 2
NumPaths == 2
NumPrompts == 1
MaxCalls == 4
MaxInvokes == 2
MaxOpt == 1

Threads == 1..NumThreads
Paths == 1..NumPaths

\* Tokens of a command line: a path, a number, a word of a prompt.
PathTok(P) == "m" \o ToString(P)
NumTok(n) == ToString(n)
Word(i) == "w" \o ToString(i)

\* A prompt is a string, kept as the sequence of its words.
Prompts == {<<Word(i)>> : i \in 1..NumPrompts}

\* The operations the two front-ends reduce to.
Ops == {"load", "unload", "list", "generate", "info"}

\* The owner of an unlocked mutex (threads are 1..NumThreads).
Free == 0

VARIABLES
    models,     \* MODELS: [some: BOOLEAN, map: path -> handle]; some = FALSE is None
    lock,       \* owner of the MODELS mutex: Free or a thread
    poisoned,   \* the mutex is poisoned (a thread panicked while holding it)
    ctorCalls,  \* number of Client::new calls so far; a handle is named by its call
    hostPc,     \* lifecycle: "start" -> plugin_init -> "running" -> plugin_cleanup -> "stopped"
    pc,         \* per thread: the place of the thread in the operation it runs
    op,         \* per thread: the operation called
    path,       \* per thread: the path argument
    req,        \* per thread: the prompt argument of generate_text (<<>> when none)
    opt,        \* per thread: the max_tokens and temperature arguments of generate_text
    inv,        \* per thread: the last call at a service boundary (history)
    hnd,        \* per thread: the client the thread has borrowed from the map (0 when none)
    result,     \* per thread: what the last call returned
    added,      \* per thread: the paths the current call inserted (history)
    removed,    \* per thread: the paths the current call removed (history)
    live,       \* paths whose load returned Ok and that no unload/cleanup removed since (history)
    calls,      \* number of calls started (bounded by MaxCalls)
    snap        \* per thread: MODELS and ctorCalls when the current call started (history)

vars == <<models, lock, poisoned, ctorCalls, hostPc, pc, op, path, req, hnd,
          result, added, removed, live, calls, snap, opt, inv>>

\* ------------------------------------------------------ values and errors
\* A Result<_, String> of the source: kind is "ok" or names the error string;
\* keys carries list_models' Vec, handle/prompt carry the serialized response.
Res(kind) == [kind |-> kind, keys |-> {}, handle |-> 0, prompt |-> <<>>]

NoResult == Res("none")

\* Option<HashMap<String, Client>>: None, and Some(map).
NoneModels == [some |-> FALSE, map |-> [p \in {} |-> 0]]

SomeModels(map) == [some |-> TRUE, map |-> map]

Keys(m) == IF m.some THEN DOMAIN m.map ELSE {}

\* HashMap::insert and HashMap::remove
Insert(map, P, h) == [p \in (DOMAIN map) \cup {P} |-> IF p = P THEN h ELSE map[p]]

Remove(map, P) == [p \in (DOMAIN map) \ {P} |-> map[p]]

\* ------------------------------------------------------ faulty variants
\* Variants of the code with one plausible fault each; the properties below
\* are checked to fail on them.
\* load_model without the contains_key early return: an already-loaded path
\* is constructed again and its handle replaced.
load_model_Reloads(m, c, P, ctorOk) ==
    IF ~m.some THEN [res |-> Res("not_initialized"), models |-> m, ctor |-> c]
    ELSE IF ~ctorOk THEN [res |-> Res("load_failed"), models |-> m, ctor |-> c + 1]
    ELSE [res |-> Res("ok"),
          models |-> SomeModels(Insert(m.map, P, c + 1)),
          ctor |-> c + 1]

\* load_model that registers the path before the constructor has succeeded.
load_model_PartialEntry(m, c, P, ctorOk) ==
    IF ~m.some THEN [res |-> Res("not_initialized"), models |-> m, ctor |-> c]
    ELSE IF P \in DOMAIN m.map THEN [res |-> Res("ok"), models |-> m, ctor |-> c]
    ELSE [res |-> IF ctorOk THEN Res("ok") ELSE Res("load_failed"),
          models |-> SomeModels(Insert(m.map, P, c + 1)),
          ctor |-> c + 1]

\* unload_model that ignores the Option of HashMap::remove.
unload_model_IgnoresMissing(m, P) ==
    IF ~m.some THEN [res |-> Res("not_initialized"), models |-> m]
    ELSE [res |-> Res("ok"), models |-> SomeModels(Remove(m.map, P))]

\* unload_model that looks the entry up (get) and does not remove it.
unload_model_KeepsEntry(m, P) ==
    IF ~m.some THEN [res |-> Res("not_initialized"), models |-> m]
    ELSE IF P \notin DOMAIN m.map THEN [res |-> Res("not_loaded"), models |-> m]
    ELSE [res |-> Res("ok"), models |-> m]

\* ------------------------------------------- the bodies under the lock
\* load_model after the lock is taken; ctorOk is the outcome of Client::new.
load_model(m, c, P, ctorOk) ==
    IF ~m.some THEN [res |-> Res("not_initialized"), models |-> m, ctor |-> c]
    ELSE IF P \in DOMAIN m.map THEN [res |-> Res("ok"), models |-> m, ctor |-> c]
    ELSE IF ~ctorOk THEN [res |-> Res("load_failed"), models |-> m, ctor |-> c + 1]
    ELSE [res |-> Res("ok"),
          models |-> SomeModels(Insert(m.map, P, c + 1)),
          ctor |-> c + 1]

\* unload_model after the lock is taken.
unload_model(m, P) ==
    IF ~m.some THEN [res |-> Res("not_initialized"), models |-> m]
    ELSE IF P \notin DOMAIN m.map THEN [res |-> Res("not_loaded"), models |-> m]
    ELSE [res |-> Res("ok"), models |-> SomeModels(Remove(m.map, P))]

\* list_models: lockOk is whether MODELS.lock() returned Ok.
list_models(m, lockOk) ==
    IF lockOk /\ m.some THEN [Res("ok") EXCEPT !.keys = DOMAIN m.map] ELSE Res("ok")

\* The lookup of generate_text and get_model_info after their own lock is taken.
get_client(m, P) ==
    IF ~m.some THEN Res("not_initialized")
    ELSE IF P \notin DOMAIN m.map THEN Res("not_loaded")
    ELSE [Res("ok") EXCEPT !.handle = m.map[P]]

\* Client::generate on handle h and its serialization; genOk is the engine's outcome.
client_generate(h, S, genOk) ==
    IF genOk THEN [Res("ok") EXCEPT !.handle = h, !.prompt = S]
    ELSE Res("generation_failed")

\* generate_text run with no other caller: load_model(path)?, lookup, generate.
generate_text(m, c, P, S, ctorOk, genOk) ==
    LET l == load_model(m, c, P, ctorOk)
        g == get_client(l.models, P)
    IN  IF l.res.kind # "ok" THEN l
        ELSE IF g.kind # "ok" THEN [l EXCEPT !.res = g]
        ELSE [l EXCEPT !.res = client_generate(g.handle, S, genOk)]

\* get_model_info run with no other caller.
get_model_info(m, c, P, ctorOk) ==
    LET l == load_model(m, c, P, ctorOk)
    IN  IF l.res.kind # "ok" THEN l ELSE [l EXCEPT !.res = get_client(l.models, P)]

\* ------------------------------------------------------------ front-ends
\* Option<T>: None, or Some(v).
None == [some |-> FALSE, val |-> 0]
Some(v) == [some |-> TRUE, val |-> v]

\* The max_tokens and temperature arguments of generate_text.
NoOpts == [max_tokens |-> None, temperature |-> None]
OptVals == {None} \cup {Some(n) : n \in 1..MaxOpt}

\* What a front-end does with a call: it answers at once with res, or it
\* calls the registry operation op with the decoded arguments.
Answer(r) ==
    [call |-> FALSE, res |-> r, op |-> "none", path |-> 0, prompt |-> <<>>,
     opts |-> NoOpts]
Delegate(o, P, S, opts) ==
    [call |-> TRUE, res |-> NoResult, op |-> o, path |-> P, prompt |-> S,
     opts |-> opts]

\* The path a command-line token names.
PathOf(tok) == CHOOSE P \in Paths : PathTok(P) = tok

\* The JSON argument of the structured generate: a key is None when it is
\* absent; wellformed = FALSE is a text that is not JSON.
Payload(P, S, mt, temp) ==
    [wellformed |-> TRUE, model_path |-> P, prompt |-> S, max_tokens |-> mt,
     temperature |-> temp]
NoPrompt == [some |-> FALSE, val |-> <<>>]
NoPayload == [Payload(None, NoPrompt, None, None) EXCEPT !.wellformed = FALSE]

\* No call at a service boundary yet.
NoInvoke ==
    [n |-> 0, service |-> "none", method |-> "none", parts |-> <<>>,
     payload |-> NoPayload]

\* run_cli_command that asks `generate` for a path only.
run_cli_command_PromptOptional(parts) ==
    IF Len(parts) = 0 THEN Answer(Res("no_command"))
    ELSE CASE parts[1] \in {"load", "unload", "info"} ->
                IF Len(parts) < 2 THEN Answer(Res("usage"))
                ELSE Delegate(parts[1], PathOf(parts[2]), <<>>, NoOpts)
           [] parts[1] = "list" -> Delegate("list", 0, <<>>, NoOpts)
           [] parts[1] = "generate" ->
                IF Len(parts) < 2 THEN Answer(Res("usage"))
                ELSE Delegate("generate", PathOf(parts[2]),
                              SubSeq(parts, 3, Len(parts)), NoOpts)
           [] OTHER -> Answer(Res("unknown_command"))

\* run_cli_command whose default arm lists the models.
run_cli_command_DefaultsToList(parts) ==
    IF Len(parts) = 0 THEN Answer(Res("no_command"))
    ELSE CASE parts[1] \in {"load", "unload", "info"} ->
                IF Len(parts) < 2 THEN Answer(Res("usage"))
                ELSE Delegate(parts[1], PathOf(parts[2]), <<>>, NoOpts)
           [] parts[1] = "generate" ->
                IF Len(parts) < 3 THEN Answer(Res("usage"))
                ELSE Delegate("generate", PathOf(parts[2]),
                              SubSeq(parts, 3, Len(parts)), NoOpts)
           [] OTHER -> Delegate("list", 0, <<>>, NoOpts)

\* run_cli_command(args), parts = args.split_whitespace(): the prompt of
\* generate is parts[2..] joined with one space, and generate_text is called
\* with max_tokens = None and temperature = None.
run_cli_command(parts) ==
    IF Len(parts) = 0 THEN Answer(Res("no_command"))
    ELSE CASE parts[1] \in {"load", "unload", "info"} ->
                IF Len(parts) < 2 THEN Answer(Res("usage"))
                ELSE Delegate(parts[1], PathOf(parts[2]), <<>>, NoOpts)
           [] parts[1] = "list" -> Delegate("list", 0, <<>>, NoOpts)
           [] parts[1] = "generate" ->
                IF Len(parts) < 3 THEN Answer(Res("usage"))
                ELSE Delegate("generate", PathOf(parts[2]),
                              SubSeq(parts, 3, Len(parts)), NoOpts)
           [] OTHER -> Answer(Res("unknown_command"))

\* cli_invoke(method, args): run_command, list_commands (a static list of
\* the five commands), or method_not_found.
cli_invoke(method, parts) ==
    CASE method = "run_command" -> run_cli_command(parts)
      [] method = "list_commands" -> Answer([Res("ok") EXCEPT !.keys = Ops])
      [] OTHER -> Answer(Res("method_not_found"))

\* inference_invoke(method, args): generate deserializes GenerateArgs
\* (model_path and prompt required, max_tokens and temperature default to
\* None) and calls generate_text with all four; any other method is
\* method_not_found.
inference_invoke(method, payload) ==
    IF method # "generate" THEN Answer(Res("method_not_found"))
    ELSE IF ~payload.wellformed \/ ~payload.model_path.some \/ ~payload.prompt.some
    THEN Answer(Res("invocation_error"))
    ELSE Delegate("generate", payload.model_path.val, payload.prompt.val,
                  [max_tokens |-> payload.max_tokens,
                   temperature |-> payload.temperature])

\* A logical generate request, and how each front-end is asked for it: the
\* command line by its usage string
\* "generate <model-path> <prompt> [--max-tokens <n>] [--temperature <t>]",
\* the structured service by {model_path, prompt, max_tokens?, temperature?}.
Intents ==
    [path : Paths, prompt : Prompts, max_tokens : OptVals, temperature : OptVals]
CliGenerate(i) ==
    <<"generate", PathTok(i.path)>> \o i.prompt
      \o (IF i.max_tokens.some
          THEN <<"--max-tokens", NumTok(i.max_tokens.val)>> ELSE <<>>)
      \o (IF i.temperature.some
          THEN <<"--temperature", NumTok(i.temperature.val)>> ELSE <<>>)
StructuredGenerate(i) ==
    Payload(Some(i.path), Some(i.prompt), i.max_tokens, i.temperature)

\* The calls a host makes at the two service boundaries.
CliVerbs == {"load", "unload", "info", "generate"}
CliArgs ==
    {<<>>, <<"help">>, <<"frobnicate">>, <<"list">>}
      \cup {<<c>> : c \in CliVerbs}
      \cup {<<c, PathTok(P)>> : c \in CliVerbs, P \in Paths}
      \cup {CliGenerate(i) : i \in Intents}
CliCalls ==
    {<<"run_command", a>> : a \in CliArgs}
      \cup {<<"list_commands", <<>>>>, <<"frobnicate", <<>>>>}
Payloads ==
    {StructuredGenerate(i) : i \in Intents}
      \cup {NoPayload}
      \cup {Payload(None, Some(S), None, None) : S \in Prompts}
      \cup {Payload(Some(P), NoPrompt, None, None) : P \in Paths}
InferenceCalls ==
    {<<"generate", a>> : a \in Payloads} \cup {<<"list", NoPayload>>}

\* -------------------------------------------------------------- Init
Init ==
    /\ models = NoneModels
    /\ lock = Free
    /\ poisoned = FALSE
    /\ ctorCalls = 0
    /\ hostPc = "start"
    /\ pc = [t \in Threads |-> "idle"]
    /\ op = [t \in Threads |-> "none"]
    /\ path = [t \in Threads |-> 0]
    /\ req = [t \in Threads |-> <<>>]
    /\ opt = [t \in Threads |-> NoOpts]
    /\ inv = [t \in Threads |-> NoInvoke]
    /\ hnd = [t \in Threads |-> 0]
    /\ result = [t \in Threads |-> NoResult]
    /\ added = [t \in Threads |-> {}]
    /\ removed = [t \in Threads |-> {}]
    /\ live = {}
    /\ calls = 0
    /\ snap = [t \in Threads |-> [models |-> NoneModels, ctor |-> 0]]

\* MODELS.lock() can return now: no other thread holds the mutex.
LockAvailable == lock = Free

\* ------------------------------------------------------- lifecycle hooks
\* plugin_init: *MODELS.lock().unwrap() = Some(HashMap::new())
plugin_init ==
    /\ hostPc = "start"
    /\ LockAvailable
    /\ IF poisoned
       THEN hostPc' = "panicked" /\ UNCHANGED <<models, live>>
       ELSE hostPc' = "running" /\ models' = SomeModels([p \in {} |-> 0]) /\ live' = {}
    /\ UNCHANGED <<lock, poisoned, ctorCalls, pc, op, path, req, hnd, result,
                   added, removed, calls, snap, opt, inv>>

\* plugin_cleanup that does not wait for the lock.
plugin_cleanup_NoLock ==
    /\ hostPc = "running"
    /\ hostPc' = "stopped"
    /\ IF poisoned
       THEN UNCHANGED <<models, live>>
       ELSE models' = NoneModels /\ live' = {}
    /\ UNCHANGED <<lock, poisoned, ctorCalls, pc, op, path, req, hnd, result,
                   added, removed, calls, snap, opt, inv>>

\* plugin_cleanup: if let Ok(mut models) = MODELS.lock() { *models = None }
plugin_cleanup ==
    /\ hostPc = "running"
    /\ LockAvailable
    /\ hostPc' = "stopped"
    /\ IF poisoned
       THEN UNCHANGED <<models, live>>
       ELSE models' = NoneModels /\ live' = {}
    /\ UNCHANGED <<lock, poisoned, ctorCalls, pc, op, path, req, hnd, result,
                   added, removed, calls, snap, opt, inv>>

\* ------------------------------------------------------------ helpers
\* The thread returns r to its caller.
Return(t, r) ==
    /\ pc' = [pc EXCEPT ![t] = "done"]
    /\ result' = [result EXCEPT ![t] = r]

\* MODELS.lock().map_err(..)? at place `at`: blocks while the mutex is held;
\* on a poisoned mutex the call returns "Failed to lock models"; otherwise the
\* thread holds the lock and goes on to `next`.
Lock(t, at, next) ==
    /\ pc[t] = at
    /\ LockAvailable
    /\ IF poisoned
       THEN Return(t, Res("lock_failed")) /\ UNCHANGED lock
       ELSE /\ lock' = t
            /\ pc' = [pc EXCEPT ![t] = next]
            /\ UNCHANGED result
    /\ UNCHANGED <<models, poisoned, ctorCalls, hostPc, op, path, req, hnd,
                   added, removed, live, calls, snap, opt, inv>>

\* Thread t starts a call that the front-end has decoded into d: the answer
\* is returned at once, or the thread enters the registry operation.
Start(t, d) ==
    /\ pc[t] \in {"idle", "done"}
    /\ op' = [op EXCEPT ![t] = d.op]
    /\ path' = [path EXCEPT ![t] = d.path]
    /\ req' = [req EXCEPT ![t] = d.prompt]
    /\ opt' = [opt EXCEPT ![t] = d.opts]
    /\ pc' = [pc EXCEPT ![t] =
                CASE ~d.call -> "done"
                  [] d.op = "unload" -> "unload_lock"
                  [] d.op = "list" -> "list_lock"
                  [] OTHER -> "load_lock"]
    /\ calls' = calls + 1
    /\ hnd' = [hnd EXCEPT ![t] = 0]
    /\ result' = [result EXCEPT ![t] = d.res]
    /\ added' = [added EXCEPT ![t] = {}]
    /\ removed' = [removed EXCEPT ![t] = {}]
    /\ snap' = [snap EXCEPT ![t] = [models |-> models, ctor |-> ctorCalls]]
    /\ UNCHANGED <<models, lock, poisoned, ctorCalls, hostPc, live>>

\* A host thread calls an operation of the registry.
Call(t) ==
    /\ calls < MaxCalls
    /\ \E o \in Ops, P \in Paths, S \in Prompts :
        Start(t, Delegate(o, IF o = "list" THEN 0 ELSE P,
                          IF o = "generate" THEN S ELSE <<>>, NoOpts))
    /\ UNCHANGED inv

\* A host thread calls the command-line service.
CliInvoke(t) ==
    /\ calls < MaxInvokes
    /\ \E c \in CliCalls :
        /\ Start(t, cli_invoke(c[1], c[2]))
        /\ inv' = [inv EXCEPT ![t] =
                     [n |-> calls + 1, service |-> "cli", method |-> c[1],
                      parts |-> c[2], payload |-> NoPayload]]

\* A host thread calls the inference service.
InferenceInvoke(t) ==
    /\ calls < MaxInvokes
    /\ \E c \in InferenceCalls :
        /\ Start(t, inference_invoke(c[1], c[2]))
        /\ inv' = [inv EXCEPT ![t] =
                     [n |-> calls + 1, service |-> "inference", method |-> c[1],
                      parts |-> <<>>, payload |-> c[2]]]

\* let mut request = GenerateRequest::new(prompt), with max_tokens and
\* temperature set when they are Some: the request client.generate is given.
GenerateRequest(t) ==
    [prompt |-> req[t], max_tokens |-> opt[t].max_tokens,
     temperature |-> opt[t].temperature]

\* ------------------------------------------------------------ load_model
LoadModelLock(t) == Lock(t, "load_lock", "load_body")

\* generate_text / get_model_info without the `?` after load_model(path).
LoadModelReturn_SwallowsError(t, r) ==
    IF op[t] = "generate"
    THEN pc' = [pc EXCEPT ![t] = "gen_lock"] /\ UNCHANGED result
    ELSE IF op[t] = "info"
    THEN pc' = [pc EXCEPT ![t] = "info_lock"] /\ UNCHANGED result
    ELSE Return(t, r)

\* load_model returns r to generate_text / get_model_info (the `?`) or to the caller.
LoadModelReturn(t, r) ==
    IF r.kind = "ok" /\ op[t] = "generate"
    THEN pc' = [pc EXCEPT ![t] = "gen_lock"] /\ UNCHANGED result
    ELSE IF r.kind = "ok" /\ op[t] = "info"
    THEN pc' = [pc EXCEPT ![t] = "info_lock"] /\ UNCHANGED result
    ELSE Return(t, r)

\* load_model whose guard is still held when generate_text / get_model_info
\* go on to lock MODELS themselves.
LoadModelBody_KeepsGuard(t) ==
    /\ pc[t] = "load_body"
    /\ \E ctorOk \in BOOLEAN :
        LET r == load_model(models, ctorCalls, path[t], ctorOk) IN
        /\ models' = r.models
        /\ ctorCalls' = r.ctor
        /\ added' = [added EXCEPT ![t] = @ \cup (Keys(r.models) \ Keys(models))]
        /\ live' = IF r.res.kind = "ok" THEN live \cup {path[t]} ELSE live
        /\ LoadModelReturn(t, r.res)
        /\ lock' = IF r.res.kind = "ok" /\ op[t] \in {"generate", "info"}
                   THEN lock ELSE Free
    /\ UNCHANGED <<poisoned, hostPc, op, path, req, hnd, removed, calls, snap, opt, inv>>

\* load_model after the lock is taken; the guard is dropped when it returns.
LoadModelBody(t) ==
    /\ pc[t] = "load_body"
    /\ \E ctorOk \in BOOLEAN :
        LET r == load_model(models, ctorCalls, path[t], ctorOk) IN
        /\ models' = r.models
        /\ ctorCalls' = r.ctor
        /\ added' = [added EXCEPT ![t] = @ \cup (Keys(r.models) \ Keys(models))]
        /\ live' = IF r.res.kind = "ok" THEN live \cup {path[t]} ELSE live
        /\ LoadModelReturn(t, r.res)
    /\ lock' = Free
    /\ UNCHANGED <<poisoned, hostPc, op, path, req, hnd, removed, calls, snap, opt, inv>>

\* ---------------------------------------------------------- unload_model
UnloadModelLock(t) == Lock(t, "unload_lock", "unload_body")

UnloadModelBody(t) ==
    /\ pc[t] = "unload_body"
    /\ LET r == unload_model(models, path[t]) IN
        /\ models' = r.models
        /\ removed' = [removed EXCEPT ![t] = @ \cup (Keys(models) \ Keys(r.models))]
        /\ live' = IF r.res.kind = "ok" THEN live \ {path[t]} ELSE live
        /\ Return(t, r.res)
    /\ lock' = Free
    /\ UNCHANGED <<poisoned, ctorCalls, hostPc, op, path, req, hnd, added, calls, snap, opt, inv>>

\* ----------------------------------------------------------- list_models
\* MODELS.lock().ok().and_then(..).unwrap_or_default(): one expression; the
\* guard is a temporary dropped at its end.
ListModels(t) ==
    /\ pc[t] = "list_lock"
    /\ LockAvailable
    /\ Return(t, list_models(models, ~poisoned))
    /\ UNCHANGED <<models, lock, poisoned, ctorCalls, hostPc, op, path, req, hnd,
                   added, removed, live, calls, snap, opt, inv>>

\* --------------------------------------------------------- generate_text
GenerateTextLock(t) == Lock(t, "gen_lock", "gen_body")

\* generate_text that drops the guard before it calls into the client.
GenerateTextBody_DropsGuard(t) ==
    /\ pc[t] = "gen_body"
    /\ LET g == get_client(models, path[t]) IN
        IF g.kind # "ok"
        THEN Return(t, g) /\ UNCHANGED hnd
        ELSE /\ pc' = [pc EXCEPT ![t] = "gen_call"]
             /\ hnd' = [hnd EXCEPT ![t] = g.handle]
             /\ UNCHANGED result
    /\ lock' = Free
    /\ UNCHANGED <<models, poisoned, ctorCalls, hostPc, op, path, req,
                   added, removed, live, calls, snap, opt, inv>>

\* as_mut / get_mut(path): an error returns (the guard is dropped); otherwise
\* the thread goes into client.generate(request) with the guard alive.
GenerateTextBody(t) ==
    /\ pc[t] = "gen_body"
    /\ LET g == get_client(models, path[t]) IN
        IF g.kind # "ok"
        THEN Return(t, g) /\ lock' = Free /\ UNCHANGED hnd
        ELSE /\ pc' = [pc EXCEPT ![t] = "gen_call"]
             /\ hnd' = [hnd EXCEPT ![t] = g.handle]
             /\ UNCHANGED <<result, lock>>
    /\ UNCHANGED <<models, poisoned, ctorCalls, hostPc, op, path, req,
                   added, removed, live, calls, snap, opt, inv>>

\* generate_text that evicts the entry when the client's generate fails.
GenerateTextCall_EvictsOnFailure(t) ==
    /\ pc[t] = "gen_call"
    /\ \E genOk \in BOOLEAN :
        /\ Return(t, client_generate(hnd[t], req[t], genOk))
        /\ models' = IF genOk THEN models
                     ELSE SomeModels(Remove(models.map, path[t]))
        /\ removed' = [removed EXCEPT ![t] =
                          IF genOk THEN @ ELSE @ \cup {path[t]}]
    /\ lock' = IF lock = t THEN Free ELSE lock
    /\ UNCHANGED <<poisoned, ctorCalls, hostPc, op, path, req, hnd,
                   added, live, calls, snap, opt, inv>>

\* client.generate(request) returns; the response is serialized and the guard dropped.
GenerateTextCall(t) ==
    /\ pc[t] = "gen_call"
    /\ \E genOk \in BOOLEAN : Return(t, client_generate(hnd[t], req[t], genOk))
    /\ lock' = IF lock = t THEN Free ELSE lock
    /\ UNCHANGED <<models, poisoned, ctorCalls, hostPc, op, path, req, hnd,
                   added, removed, live, calls, snap, opt, inv>>

\* -------------------------------------------------------- get_model_info
GetModelInfoLock(t) == Lock(t, "info_lock", "info_body")

GetModelInfoBody(t) ==
    /\ pc[t] = "info_body"
    /\ Return(t, get_client(models, path[t]))
    /\ lock' = Free
    /\ UNCHANGED <<models, poisoned, ctorCalls, hostPc, op, path, req, hnd,
                   added, removed, live, calls, snap, opt, inv>>

\* ------------------------------------------------------------ the engine
\* The engine panics inside Client::new (called by load_model for an absent
\* path) or inside Client::generate: the thread unwinds, the guard is dropped
\* during the panic, and the mutex is poisoned.
EnginePanic(t) ==
    /\ \/ /\ pc[t] = "load_body"
          /\ models.some
          /\ path[t] \notin DOMAIN models.map
          /\ ctorCalls' = ctorCalls + 1
       \/ /\ pc[t] = "gen_call"
          /\ UNCHANGED ctorCalls
    /\ poisoned' = TRUE
    /\ lock' = IF lock = t THEN Free ELSE lock
    /\ pc' = [pc EXCEPT ![t] = "panicked"]
    /\ result' = [result EXCEPT ![t] = Res("panicked")]
    /\ UNCHANGED <<models, hostPc, op, path, req, hnd, added, removed, live, calls, snap, opt, inv>>

\* ------------------------------------------------------------------ Next
Next ==
    \/ plugin_init
    \/ plugin_cleanup
    \/ \E t \in Threads :
        \/ Call(t)
        \/ LoadModelLock(t)
        \/ LoadModelBody(t)
        \/ UnloadModelLock(t)
        \/ UnloadModelBody(t)
        \/ ListModels(t)
        \/ GenerateTextLock(t)
        \/ GenerateTextBody(t)
        \/ GenerateTextCall(t)
        \/ GetModelInfoLock(t)
        \/ GetModelInfoBody(t)
        \/ EnginePanic(t)

Spec == Init /\ [][Next]_vars

\* ------------------------------------------------- one caller at a time
\* No call is running: every thread is before, between or after its calls.
Quiet == \A t \in Threads : pc[t] \in {"idle", "done", "panicked"}

\* The same operations with no other caller running: a call, and a lifecycle
\* hook, starts only when no call is in progress.
NextSeq ==
    \/ Quiet /\ plugin_init
    \/ Quiet /\ plugin_cleanup
    \/ \E t \in Threads :
        \/ Quiet /\ Call(t)
        \/ LoadModelLock(t)
        \/ LoadModelBody(t)
        \/ UnloadModelLock(t)
        \/ UnloadModelBody(t)
        \/ ListModels(t)
        \/ GenerateTextLock(t)
        \/ GenerateTextBody(t)
        \/ GenerateTextCall(t)
        \/ GetModelInfoLock(t)
        \/ GetModelInfoBody(t)
        \/ EnginePanic(t)

SeqSpec == Init /\ [][NextSeq]_vars

\* ------------------------------------------------------ fair scheduling
\* A step of thread t inside a call: taking the lock, or the code that runs
\* under it (engine calls included, however they end).
ThreadStep(t) ==
    \/ LoadModelLock(t)
    \/ LoadModelBody(t)
    \/ UnloadModelLock(t)
    \/ UnloadModelBody(t)
    \/ ListModels(t)
    \/ GenerateTextLock(t)
    \/ GenerateTextBody(t)
    \/ GenerateTextCall(t)
    \/ GetModelInfoLock(t)
    \/ GetModelInfoBody(t)
    \/ EnginePanic(t)

\* Every thread that can step eventually does: the scheduler is fair and
\* every engine call terminates.
FairSpec == Spec /\ \A t \in Threads : WF_vars(ThreadStep(t))

\* ------------------------------------------------------ service boundary
\* The plugin as the host sees it: every call comes through one of the two
\* services.
FrontNext ==
    \/ plugin_init
    \/ plugin_cleanup
    \/ \E t \in Threads :
        \/ CliInvoke(t)
        \/ InferenceInvoke(t)
        \/ LoadModelLock(t)
        \/ LoadModelBody(t)
        \/ UnloadModelLock(t)
        \/ UnloadModelBody(t)
        \/ ListModels(t)
        \/ GenerateTextLock(t)
        \/ GenerateTextBody(t)
        \/ GenerateTextCall(t)
        \/ GetModelInfoLock(t)
        \/ GetModelInfoBody(t)
        \/ EnginePanic(t)

FrontSpec == Init /\ [][FrontNext]_vars

\* ====================================================== properties
\* Steps of the operations, as seen from outside.
Returns(t) == pc[t] # "done" /\ pc'[t] = "done"

LoadStep(t) == pc[t] = "load_body" /\ pc'[t] \notin {"load_body", "panicked"}

UnloadStep(t) == pc[t] = "unload_body" /\ pc'[t] = "done"

ListStep(t) == pc[t] = "list_lock" /\ pc'[t] = "done"

InHandle(P) == {t \in Threads : pc[t] = "gen_call" /\ path[t] = P}

\* ------------------------------------------------------------------ C1
\* C1: generate(P) never returns the "Model not loaded" error, because it
\* auto-loads P first: a finished generate call has any result but not_loaded.
C1_GenerateNeverNotLoaded ==
    \A t \in Threads :
        (op[t] = "generate" /\ pc[t] = "done") => result[t].kind # "not_loaded"

\* ------------------------------------------------------------------ C2
\* C2: for every path P at most one thread is executing the handle's generate
\* call for P, and the thread that is inside the handle holds the registry lock
\* from the start of the call to its response, so that no other call on P can
\* start in between.
C2_NoInterleavingInHandle ==
    \A P \in Paths :
        /\ Cardinality(InHandle(P)) <= 1
        /\ \A t \in InHandle(P) :
            /\ lock = t
            /\ models.some /\ P \in DOMAIN models.map /\ models.map[P] = hnd[t]

\* Two generate calls on the same loaded path: one inside the handle, the other
\* waiting for the lock.
C2_Witness ==
    \E t, u \in Threads :
        /\ t # u
        /\ pc[t] = "gen_call" /\ op[u] = "generate" /\ pc[u] = "gen_lock"
        /\ path[t] = path[u]

\* ------------------------------------------------------------------ C3
\* C3: generate calls against two distinct loaded paths do not block each
\* other: a generate call that has reached the lock of its path B, B loaded,
\* is never kept out by a thread that is inside the handle of another path A.
C3_DistinctPathsDoNotBlock ==
    \A t, u \in Threads :
        ~ /\ t # u
          /\ pc[t] = "gen_call"
          /\ op[u] = "generate" /\ pc[u] = "gen_lock"
          /\ path[u] \in Keys(models) /\ path[u] # path[t]
          /\ ~LockAvailable

\* What the code does instead: no two threads are ever inside a handle's
\* generate at the same time, whatever their paths.
GenerateIsSerializedAcrossPaths ==
    Cardinality({t \in Threads : pc[t] = "gen_call"}) <= 1

\* ------------------------------------------------------------------ C4
\* C4: on an initialized registry, unload(P) of a path P that is not loaded
\* (never loaded, or unloaded since its last load) fails with not_loaded and
\* leaves the registry as it was; unload(P) of a loaded path succeeds and
\* removes P, so that a second unload(P) fails.
C4_UnloadAbsentFails ==
    [][\A t \in Threads : UnloadStep(t) /\ models.some =>
          IF path[t] \in live
          THEN /\ result'[t].kind = "ok"
               /\ path[t] \notin Keys(models') /\ path[t] \notin live'
               /\ Keys(models') = Keys(models) \ {path[t]}
          ELSE /\ result'[t].kind = "not_loaded"
               /\ models' = models /\ live' = live]_vars

\* A first unload(P) has succeeded and a second unload(P) has failed.
C4_Witness ==
    \E t, u \in Threads :
        /\ t # u /\ path[t] = path[u] /\ models.some
        /\ op[t] = "unload" /\ pc[t] = "done" /\ result[t].kind = "ok"
        /\ op[u] = "unload" /\ pc[u] = "done" /\ result[u].kind = "not_loaded"
        /\ removed[t] = {path[t]} /\ removed[u] = {}

\* ------------------------------------------------------------------ C5
\* C5: load(P) of a path whose load already succeeded (and that was not
\* unloaded since) succeeds as a no-op: the registry and the handle under P are
\* unchanged and the engine constructor is not called; a load that succeeds
\* leaves P registered.
C5_LoadIdempotent ==
    [][\A t \in Threads : LoadStep(t) =>
          /\ path[t] \in live =>
                /\ models' = models /\ ctorCalls' = ctorCalls
                /\ op[t] = "load" => pc'[t] = "done" /\ result'[t].kind = "ok"
          /\ (op[t] = "load" /\ result'[t].kind = "ok") =>
                /\ path[t] \in Keys(models')
                /\ \A q \in Keys(models) : models'.map[q] = models.map[q]]_vars

\* A second load(P): it returned Ok, inserted nothing, and P holds a handle
\* that an earlier constructor call made.
C5_Witness ==
    \E t \in Threads :
        /\ op[t] = "load" /\ pc[t] = "done" /\ result[t].kind = "ok"
        /\ added[t] = {} /\ path[t] \in Keys(models)
        /\ path[t] \in Keys(snap[t].models) /\ ctorCalls = snap[t].ctor

\* ------------------------------------------------------------------ C6
\* C6: when the engine constructor fails for P, load(P), generate(P) and
\* info(P) return the load failure and the registry is unchanged: no entry for
\* P is inserted.
C6_LoadFailureLeavesRegistry ==
    [][\A t \in Threads : LoadStep(t) =>
          /\ (ctorCalls' # ctorCalls /\ path[t] \notin Keys(models')) =>
                pc'[t] = "done" /\ result'[t].kind = "load_failed"
          /\ (pc'[t] = "done" /\ result'[t].kind = "load_failed") =>
                /\ models' = models /\ live' = live
                /\ path[t] \notin Keys(models') /\ added'[t] = {}]_vars

\* info(P) has returned the load failure and P is not in the registry.
C6_Witness ==
    \E t \in Threads :
        /\ op[t] = "info" /\ pc[t] = "done" /\ result[t].kind = "load_failed"
        /\ models.some /\ path[t] \notin Keys(models)
        /\ ctorCalls > snap[t].ctor

\* ------------------------------------------------------------------ C7
\* C7: with no other caller running, generate(P, S) on an initialized registry
\* that does not contain P gives the result and the final registry of load(P)
\* followed by generate(P, S), under the same engine outcomes (also when the
\* constructor fails): as functions of the registry, and for every generate
\* call that returns.
C7_Composed(m, c, P, S, ctorOk, genOk) ==
    LET l == load_model(m, c, P, ctorOk)
    IN  generate_text(l.models, l.ctor, P, S, ctorOk, genOk)

C7_AutoLoadEquivalence ==
    [][/\ \A P \in Paths, S \in Prompts, ctorOk \in BOOLEAN, genOk \in BOOLEAN :
            (models.some /\ P \notin Keys(models)) =>
                LET d == generate_text(models, ctorCalls, P, S, ctorOk, genOk)
                    g == C7_Composed(models, ctorCalls, P, S, ctorOk, genOk)
                IN  d.res = g.res /\ d.models = g.models
       /\ \A t \in Threads :
            ( /\ Returns(t) /\ op[t] = "generate"
              /\ snap[t].models.some /\ path[t] \notin Keys(snap[t].models)
              /\ result'[t].kind # "lock_failed" ) =>
                \E ctorOk \in BOOLEAN, genOk \in BOOLEAN :
                    LET g == C7_Composed(snap[t].models, snap[t].ctor, path[t],
                                         req[t], ctorOk, genOk)
                    IN  result'[t] = g.res /\ models' = g.models]_vars

\* A generate call on a path that was not loaded when it started has returned
\* a response from the handle its auto-load made.
C7_Witness ==
    \E t \in Threads :
        /\ op[t] = "generate" /\ pc[t] = "done" /\ result[t].kind = "ok"
        /\ snap[t].models.some /\ path[t] \notin Keys(snap[t].models)
        /\ added[t] = {path[t]} /\ result[t].handle = snap[t].ctor + 1

\* A generate call whose auto-load failed in the engine constructor.
C7_WitnessLoadFails ==
    \E t \in Threads :
        /\ op[t] = "generate" /\ pc[t] = "done" /\ result[t].kind = "load_failed"
        /\ snap[t].models.some /\ path[t] \notin Keys(snap[t].models)

\* ------------------------------------------------------------------ C8
\* C8: list() returns exactly the keys of the registry when it holds the
\* lock, and these are the paths whose load (explicit or auto-load) succeeded
\* and that were not unloaded (or discarded by cleanup) since.
C8_ListIsLoadedSet ==
    [][/\ Keys(models) = live
       /\ \A t \in Threads : (ListStep(t) /\ ~poisoned) =>
            /\ result'[t].kind = "ok"
            /\ result'[t].keys = live
            /\ result'[t].keys = Keys(models)]_vars

\* After loading two paths and unloading one of them, list() has returned
\* exactly the other.
C8_Witness ==
    \E t, u \in Threads : \E A, B \in Paths :
        /\ A # B /\ t # u
        /\ op[t] = "list" /\ pc[t] = "done" /\ result[t].keys = {B}
        /\ Keys(snap[t].models) = {B}
        /\ op[u] = "unload" /\ pc[u] = "done" /\ result[u].kind = "ok"
        /\ path[u] = A /\ B \in Keys(snap[u].models)

\* ------------------------------------------------------------------ C9
\* C9: when the handle's generate call fails for a loaded path P, the call
\* returns the generation failure and the entry for P stays registered with the
\* same handle; a following generate(P) runs against that handle and does not
\* call the engine constructor.
C9_GenerationFailureKeepsHandle ==
    [][\A t \in Threads :
          ( /\ pc[t] = "gen_call" /\ Returns(t)
            /\ result'[t].kind # "ok" ) =>
              /\ result'[t].kind = "generation_failed"
              /\ models' = models
              /\ path[t] \in Keys(models') /\ models'.map[path[t]] = hnd[t]
              /\ \A S \in Prompts, ctorOk \in BOOLEAN, genOk \in BOOLEAN :
                    LET g == generate_text(models', ctorCalls', path[t], S, ctorOk, genOk)
                    IN  /\ g.ctor = ctorCalls' /\ g.models = models'
                        /\ g.res = client_generate(hnd[t], S, genOk)]_vars

\* A generate call has returned the generation failure and its path is still
\* registered with the handle the call ran against.
C9_Witness ==
    \E t \in Threads :
        /\ op[t] = "generate" /\ pc[t] = "done"
        /\ result[t].kind = "generation_failed"
        /\ path[t] \in Keys(models) /\ models.map[path[t]] = hnd[t]

\* ----------------------------------------------------------------- C10
\* C10 as stated: whenever an operation returns an error, the set of
\* registered paths is the same as before the call: the call itself has
\* inserted and removed nothing or, at the least, the registry holds at the
\* return the paths it held when the call started.
C10_ErrorLeavesRegistry ==
    [][\A t \in Threads :
          (Returns(t) /\ result'[t].kind # "ok") =>
              \/ added'[t] = {} /\ removed'[t] = {}
              \/ Keys(models') = Keys(snap[t].models)]_vars

\* C10 as amended: an operation that returns an error has removed no entry;
\* load, unload and list have inserted none, and a load failure has inserted
\* none in any operation; a generate or info that fails after its auto-load
\* succeeded has inserted at most the entry for its own path.
C10_ErrorLeavesRegistryButAutoLoad ==
    \A t \in Threads :
        (pc[t] = "done" /\ result[t].kind # "ok") =>
            /\ removed[t] = {}
            /\ added[t] \subseteq {path[t]}
            /\ op[t] \in {"load", "unload", "list"} => added[t] = {}
            /\ result[t].kind = "load_failed" => added[t] = {}

\* A generate call has returned the generation failure after its auto-load
\* inserted its path.
C10_Witness ==
    \E t \in Threads :
        /\ op[t] = "generate" /\ pc[t] = "done"
        /\ result[t].kind = "generation_failed"
        /\ added[t] = {path[t]} /\ path[t] \in Keys(models)

\* ----------------------------------------------------------------- C11
\* Thread t's last boundary call was made by the command line / by the
\* structured service for the logical request i.
CliAsked(t, i) ==
    /\ inv[t].service = "cli" /\ inv[t].method = "run_command"
    /\ inv[t].parts = CliGenerate(i)
StructuredAsked(t, i) ==
    /\ inv[t].service = "inference" /\ inv[t].method = "generate"
    /\ inv[t].payload = StructuredGenerate(i)

\* The request of the logical request i.
RequestOf(i) ==
    [prompt |-> i.prompt, max_tokens |-> i.max_tokens,
     temperature |-> i.temperature]

\* C11: the two front-ends behave identically for identical logical intent: a
\* command-line generate for P, S with options max-tokens n and temperature t,
\* and the structured generate {model_path P, prompt S, max_tokens n,
\* temperature t}, both reach the handle of P with the request (S, n, t).
C11_FrontEndsAgree ==
    \A t \in Threads : \A i \in Intents :
        (pc[t] = "gen_call" /\ (CliAsked(t, i) \/ StructuredAsked(t, i))) =>
            path[t] = i.path /\ GenerateRequest(t) = RequestOf(i)

\* What the code does: the structured service passes the request on as
\* given; the command line passes every token after the path as the prompt,
\* option tokens included, and no max_tokens and no temperature.
FrontEndsAgreeWithoutOptions ==
    \A t \in Threads : \A i \in Intents :
        /\ (pc[t] = "gen_call" /\ StructuredAsked(t, i)) =>
              path[t] = i.path /\ GenerateRequest(t) = RequestOf(i)
        /\ (pc[t] = "gen_call" /\ CliAsked(t, i)) =>
              /\ path[t] = i.path
              /\ GenerateRequest(t) =
                    [prompt |-> SubSeq(CliGenerate(i), 3, Len(CliGenerate(i))),
                     max_tokens |-> None, temperature |-> None]
              /\ (GenerateRequest(t) = RequestOf(i)) <=>
                    (~i.max_tokens.some /\ ~i.temperature.some)

\* ----------------------------------------------------------------- C12
\* C12: the command line answers `help` and an empty command with a
\* successful result (the static usage summary), not with an error.
C12_HelpAndEmptySucceed ==
    \A t \in Threads :
        ( /\ inv[t].service = "cli" /\ inv[t].method = "run_command"
          /\ inv[t].parts \in {<<>>, <<"help">>}
          /\ pc[t] = "done" ) => result[t].kind = "ok"

\* What the code does: both are errors, "No command provided" and
\* "Unknown command: help"; the command list is the answer of the method
\* list_commands.
HelpAndEmptyAreErrors ==
    \A t \in Threads :
        (inv[t].service = "cli" /\ pc[t] = "done") =>
            /\ (inv[t].method = "run_command" /\ inv[t].parts = <<>>) =>
                  result[t].kind = "no_command"
            /\ (inv[t].method = "run_command" /\ inv[t].parts = <<"help">>) =>
                  result[t].kind = "unknown_command"
            /\ inv[t].method = "list_commands" =>
                  result[t].kind = "ok" /\ result[t].keys = Ops

\* ----------------------------------------------------------------- C13
\* The step in which thread t makes a call at a service boundary.
InvokeStep(t) == inv'[t].n # inv[t].n

\* The step leaves the registry, the engine and the lock alone and enters no
\* registry operation.
RegistryUntouched(t) ==
    /\ pc'[t] = "done" /\ op'[t] = "none"
    /\ models' = models /\ ctorCalls' = ctorCalls
    /\ lock' = lock /\ poisoned' = poisoned
    /\ added'[t] = {} /\ removed'[t] = {}

\* A command line with fewer arguments than its subcommand needs.
TooFewArguments(parts) ==
    /\ Len(parts) >= 1
    /\ \/ parts[1] \in {"load", "unload", "info"} /\ Len(parts) < 2
       \/ parts[1] = "generate" /\ Len(parts) < 3

\* C13: a command-line subcommand given fewer arguments than its minimum
\* (load, unload, info without a path; generate without a path and a prompt
\* token) returns a usage error without calling the registry: registry and
\* engine are untouched and no model is loaded.
C13_TooFewArgumentsIsUsageError ==
    [][\A t \in Threads :
          ( /\ InvokeStep(t)
            /\ inv'[t].service = "cli" /\ inv'[t].method = "run_command"
            /\ TooFewArguments(inv'[t].parts) ) =>
                result'[t].kind = "usage" /\ RegistryUntouched(t)]_vars

\* `generate <path>` with no prompt has returned the usage error while the
\* table exists and the path is not loaded.
C13_Witness ==
    \E t \in Threads : \E P \in Paths :
        /\ inv[t].service = "cli" /\ inv[t].parts = <<"generate", PathTok(P)>>
        /\ pc[t] = "done" /\ result[t].kind = "usage"
        /\ models.some /\ P \notin Keys(models) /\ ctorCalls = 0

\* ----------------------------------------------------------------- C14
\* C14: an unknown method name on either service, or an unknown command-line
\* subcommand, yields an explicit not-found error, never a default operation,
\* and leaves the registry unchanged.
C14_UnknownIsNotFound ==
    [][\A t \in Threads : InvokeStep(t) =>
          /\ ( \/ inv'[t].service = "cli"
                    /\ inv'[t].method \notin {"run_command", "list_commands"}
               \/ inv'[t].service = "inference" /\ inv'[t].method # "generate" ) =>
                  result'[t].kind = "method_not_found" /\ RegistryUntouched(t)
          /\ ( /\ inv'[t].service = "cli" /\ inv'[t].method = "run_command"
               /\ Len(inv'[t].parts) >= 1
               /\ inv'[t].parts[1] \notin Ops ) =>
                  result'[t].kind = "unknown_command" /\ RegistryUntouched(t)]_vars

\* An unknown subcommand and an unknown method of the inference service
\* have both been answered with their not-found errors.
C14_Witness ==
    \E t, u \in Threads :
        /\ inv[t].service = "cli" /\ inv[t].parts = <<"frobnicate">>
        /\ pc[t] = "done" /\ result[t].kind = "unknown_command"
        /\ inv[u].service = "inference" /\ inv[u].method = "list"
        /\ pc[u] = "done" /\ result[u].kind = "method_not_found"

\* ----------------------------------------------------------------- C15
\* Places where a thread waits in MODELS.lock().
LockPlaces == {"load_lock", "unload_lock", "list_lock", "gen_lock", "info_lock"}

\* C15: when the registry lock cannot be acquired (the mutex is poisoned),
\* every operation that asks for it (load, unload, list, generate, info)
\* returns the internal lock error to its caller.
C15_LockFailureSurfaced ==
    [][\A t \in Threads :
          (pc[t] \in LockPlaces /\ poisoned /\ pc'[t] # pc[t]) =>
              pc'[t] = "done" /\ result'[t].kind = "lock_failed"]_vars

\* What the code does: on a poisoned mutex load, unload, generate and info
\* return the lock error, and list returns an empty, normal-looking list.
LockFailureSurfacedButList ==
    [][\A t \in Threads :
          (pc[t] \in LockPlaces /\ poisoned /\ pc'[t] # pc[t]) =>
              /\ pc'[t] = "done"
              /\ IF pc[t] = "list_lock"
                 THEN result'[t] = Res("ok")
                 ELSE result'[t].kind = "lock_failed"]_vars

\* ----------------------------------------------------------------- C16
\* A step of a generate or info call in progress.
AutoLoadStep(t) ==
    /\ op[t] \in {"generate", "info"}
    /\ pc[t] \notin {"idle", "done", "panicked"}
    /\ pc'[t] # pc[t]

\* C16: a generate(P) or info(P) call never removes an entry, adds at most the
\* entry for P and leaves the handle of every registered path unchanged; a
\* step that removes an entry is a step of unload or of plugin cleanup.
C16_AutoLoadNeverUnloads ==
    [][/\ \A t \in Threads : AutoLoadStep(t) =>
            /\ models.some => models'.some
            /\ Keys(models) \subseteq Keys(models')
            /\ Keys(models') \ Keys(models) \subseteq {path[t]}
            /\ \A q \in Keys(models) : models'.map[q] = models.map[q]
            /\ removed'[t] = {} /\ added'[t] \subseteq {path[t]}
       /\ ~(Keys(models) \subseteq Keys(models')) =>
            \/ hostPc = "running" /\ hostPc' = "stopped"
            \/ \E t \in Threads : UnloadStep(t) /\ op[t] = "unload"]_vars

\* A generate call has auto-loaded its path while another path stayed
\* registered with the handle it had when the call started.
C16_Witness ==
    \E t \in Threads : \E q \in Keys(models) :
        /\ op[t] = "generate" /\ pc[t] = "done"
        /\ added[t] = {path[t]} /\ removed[t] = {} /\ q # path[t]
        /\ q \in Keys(snap[t].models) /\ models.map[q] = snap[t].models.map[q]
        /\ path[t] \in Keys(models)

\* ----------------------------------------------------------------- C17
\* A step in which a thread looks into MODELS under the lock.
BodyStep(t) ==
    /\ pc[t] \in {"load_body", "unload_body", "gen_body", "info_body"}
    /\ pc'[t] # pc[t]

\* The table and the lifecycle, and the operations on a missing table: init
\* creates an empty table; without a table load, unload, generate and info
\* return "Models not initialized" with no constructor call, and list returns
\* an empty list.
TableLifecycle ==
    /\ hostPc = "start" => ~models.some
    /\ hostPc = "running" => models.some
    /\ (hostPc = "start" /\ hostPc' = "running") =>
            models' = SomeModels([p \in {} |-> 0])
    /\ \A t \in Threads :
        /\ (BodyStep(t) /\ ~models.some) =>
              /\ pc'[t] = "done" /\ result'[t].kind = "not_initialized"
              /\ ctorCalls' = ctorCalls /\ models' = models
        /\ (pc[t] = "list_lock" /\ pc'[t] = "done" /\ ~models.some) =>
              result'[t] = Res("ok")

\* C17 as stated: the table exists only between plugin init and plugin
\* cleanup (cleanup discards the whole table), and before init or after
\* cleanup load, unload, generate and info fail with "Models not initialized"
\* without calling the engine, while list returns an empty list.
C17_TableOnlyWhileRunning ==
    [][/\ TableLifecycle
       /\ hostPc = "stopped" => ~models.some
       /\ \A t \in Threads :
            ( /\ hostPc \in {"start", "stopped"}
              /\ pc[t] \in LockPlaces \ {"list_lock"}
              /\ Returns(t) ) => result'[t].kind = "not_initialized"]_vars

\* C17 as amended: as stated while the mutex is not poisoned; a cleanup that
\* finds the mutex poisoned leaves the table in place, and after it load,
\* unload, generate and info fail with the lock error and list returns an
\* empty list.
C17_TableOnlyWhileRunningUnlessPoisoned ==
    [][/\ TableLifecycle
       /\ (hostPc = "stopped" /\ ~poisoned) => ~models.some
       /\ (hostPc = "running" /\ hostPc' = "stopped") =>
            models' = IF poisoned THEN models ELSE NoneModels
       /\ \A t \in Threads :
            /\ ( /\ hostPc \in {"start", "stopped"}
                 /\ pc[t] \in LockPlaces \ {"list_lock"}
                 /\ Returns(t) ) =>
                    result'[t].kind = IF poisoned THEN "lock_failed"
                                      ELSE "not_initialized"
            /\ ( /\ hostPc \in {"start", "stopped"}
                 /\ pc[t] = "list_lock" /\ Returns(t) ) => result'[t] = Res("ok")
            /\ ( /\ hostPc \in {"start", "stopped"}
                 /\ pc[t] # pc'[t] ) => ctorCalls' = ctorCalls]_vars

\* After cleanup has discarded a table that held a model, a load has failed
\* with "Models not initialized".
C17_Witness ==
    \E t \in Threads :
        /\ hostPc = "stopped" /\ ~models.some /\ ~poisoned
        /\ op[t] = "load" /\ pc[t] = "done" /\ result[t].kind = "not_initialized"
        /\ Keys(snap[t].models) # {}

\* ----------------------------------------------------------------- C18
\* C18: a handle is never removed or dropped while a generation on it is in
\* flight: while a thread stays inside the handle's generate for P the
\* registry does not change, and when the call returns P is still registered
\* with the handle the call ran against; no unload or cleanup step is taken
\* in a state where a generation is in flight.
C18_HandleNotDroppedInFlight ==
    [][\A t \in Threads : pc[t] = "gen_call" =>
          /\ models' = models
          /\ path[t] \in Keys(models') /\ models'.map[path[t]] = hnd[t]
          /\ hostPc' = hostPc
          /\ \A u \in Threads : ~UnloadStep(u)]_vars

\* A generation on P is in flight while an unload of P waits for the lock.
C18_Witness ==
    \E t, u \in Threads :
        /\ pc[t] = "gen_call" /\ op[u] = "unload" /\ pc[u] = "unload_lock"
        /\ path[u] = path[t] /\ hostPc = "running"
\* ----------------------------------------------------------------- C19
\* Thread t is inside a call.
InCall(t) == pc[t] \notin {"idle", "done", "panicked"}

\* C19: no operation asks for the registry lock while it holds it, so in every
\* state where calls are in progress some call can take a step (no deadlock),
\* the lock is held only by a thread that is running under it, cleanup can
\* run whenever the lock is free, and under fair scheduling every call
\* eventually returns (or ends by unwinding).
C19_NoDeadlockEveryCallReturns ==
    /\ [](\A t \in Threads :
            /\ pc[t] \in LockPlaces => lock # t
            /\ lock = t => pc[t] \in {"load_body", "unload_body", "gen_body",
                                      "gen_call", "info_body"})
    /\ []((\E t \in Threads : InCall(t)) =>
              \E t \in Threads : InCall(t) /\ ENABLED ThreadStep(t))
    /\ []((lock = Free /\ hostPc = "running") => ENABLED plugin_cleanup)
    /\ \A t \in Threads : InCall(t) ~> ~InCall(t)

\* A generate call that auto-loaded its path has taken the lock a second time
\* while another call waits for the lock.
C19_Witness ==
    \E t, u \in Threads :
        /\ op[t] = "generate" /\ pc[t] = "gen_call" /\ added[t] = {path[t]}
        /\ lock = t /\ pc[u] \in LockPlaces

====
